---- MODULE Spec2Model ----
(***************************************************************************)
(* A model of check_serial.py: the survey of a zone's authoritative        *)
(* nameservers for their SOA serial numbers, and the exit code computed    *)
(* from the result.                                                        *)
(*                                                                         *)
(* The program is sequential.  pc names the function (or the place in a    *)
(* loop) that runs next.  The answers of the network (the NS rrset, the    *)
(* result of getaddrinfo, the outcome of one UDP or TCP query) are chosen  *)
(* by the actions from bounded sets.  Python's None is modelled by None    *)
(* for integers and by the empty sequence for objects (a response that     *)
(* exists is the one-element sequence holding it).                         *)
(*                                                                         *)
(* Prefs.TIMEOUT, Prefs.WANT_DNSSEC and Prefs.AF only parametrise the      *)
(* library calls whose results are chosen nondeterministically here, so    *)
(* they are not state of the model.                                        *)
(***************************************************************************)
EXTENDS Integers, Sequences, FiniteSets, TLC

\* ------------------------------------------------------------ bounds ----
MaxAddrsPerName == 2     \* longest list getaddrinfo returns
MaxRetries == 2          \* largest -r value of a probe examined on its own
MaxRunRetries == 1       \* largest -r value given on the command line
MaxProbes == 2           \* most addresses one run attempts
MaxCount == 3            \* largest survey handed to the verdict on its own
MaxVerdictSerial == 2    \* its serials are 0..MaxVerdictSerial
MaxDrift == 2            \* its allowed drift is -1..MaxDrift
SerialBits == 4          \* width of a serial handed to the verdict on its
                         \* own; 32 in the zone data, scaled down here

\* ------------------------------------------------- program constants ----
DefaultRETRIES == 3
DefaultALLOWED_DRIFT == 0

None == -1

\* ------------------------------------------------------- sample values ----
Names == {1, 2}          \* two nameserver names, numbered in lexical order
Addrs == {1, 2}          \* two IP addresses
Serials == {1, 2}        \* two serials that responses carry

\* ------------------------------------------------------------ helpers ----
SeqsUpTo(S, n) == UNION {[1..k -> S] : k \in 0..n}

SetMin(S) == CHOOSE x \in S : \A y \in S : x <= y
SetMax(S) == CHOOSE x \in S : \A y \in S : x >= y
Range(s) == {s[i] : i \in 1..Len(s)}

\* sorted() of line 210, applied to the targets of the NS rrset
RECURSIVE sorted(_)
sorted(S) == IF S = {} THEN <<>>
             ELSE <<SetMin(S)>> \o sorted(S \ {SetMin(S)})

\* ---------------------------------------------------------- responses ----
\* An rrset of the answer section: its type, whether its owner name is the
\* queried zone, and the serial of its first rdata (None unless SOA).
SOA(o, s) == [rdtype |-> "SOA", owner |-> o, serial |-> s]
RRSIG == [rdtype |-> "RRSIG", owner |-> "zone", serial |-> None]

\* The answer sections a response may carry: empty, without an SOA rrset,
\* an SOA rrset of the zone or of another owner, alone or behind another
\* rrset.
Answers == {<<>>, <<RRSIG>>, <<RRSIG, SOA("zone", 2)>>}
           \cup {<<SOA("zone", s)>> : s \in Serials}
           \cup {<<SOA("other", s)>> : s \in Serials}

\* EDNS options of a response: none, or one NSID option whose bytes are
\* valid UTF-8 (Utf8Nsid) or not (RawNsid)
Utf8Nsid == 1
RawNsid == 2
Options == {<<>>, <<Utf8Nsid>>, <<RawNsid>>}

WellFormed(r) == r.rcode = 0 /\ r.aa /\ ~r.tc

\* The responses a server may send.  One that fails a header check carries
\* no answer and no option; one that passes carries any of them.
Responses == {r \in [rcode : {0, 2}, aa : BOOLEAN, tc : BOOLEAN,
                     answer : Answers, options : Options] :
                 ~WellFormed(r) => r.answer = <<>> /\ r.options = <<>>}

AddrLists == SeqsUpTo(Addrs, MaxAddrsPerName)

VARIABLES
    pc,             \* the function or loop position that runs next
    exit_code,      \* argument of sys.exit, None while running
    fault,          \* the unhandled exception that ended the run, or "none"
    RETRIES, ALLOWED_DRIFT, USE_TCP, NO_NSSET, MASTER, MASTER_IP,
    MASTER_SERIAL, ADDITIONAL, NSID,                    \* class Prefs
    SERIAL_LIST, COUNT_NSIP,                            \* class Stats
    NSNAME_LIST,    \* the list get_nsnames returned
    ni,             \* position of the for loop of line 174 in NSNAME_LIST
    nsip_list,      \* the addresses the for loop of line 176 has yet to visit
    noaddr,         \* get_ip returned an empty list for some name of the list
    caller,         \* who called get_serial: "check_master" or "check_all_ns"
    nsip,           \* the address being probed
    retries,        \* send_query_udp's retry budget
    gotresponse,    \* send_query_udp's gotresponse
    res,            \* send_query_udp's res
    resp,           \* get_serial's resp: the value send_query returned
    serial, nsid,   \* the pair get_serial returned
    udp_sent, udp_timeouts, tcp_sent, tcp_reply,
                    \* this probe's queries sent, timeouts, and TCP outcome
    err,            \* the ERROR lines get_serial printed for this probe
    net,            \* kinds of network activity performed so far
    lines,          \* number of status lines printed so far
    printed         \* the status line the last step printed, if any

prefs == <<RETRIES, ALLOWED_DRIFT, USE_TCP, NO_NSSET, MASTER, ADDITIONAL, NSID>>
master == <<MASTER_IP, MASTER_SERIAL>>
stats == <<SERIAL_LIST, COUNT_NSIP>>
loopv == <<NSNAME_LIST, ni, nsip_list, noaddr>>
probe == <<caller, nsip, retries, gotresponse, res, resp, serial, nsid,
           udp_sent, udp_timeouts, tcp_sent, tcp_reply, err>>
outv == <<lines, printed>>
vars == <<pc, exit_code, fault, prefs, master, stats, loopv, probe, net, outv>>

NoProbe ==
    /\ caller = "none" /\ nsip = None /\ retries = 0 /\ gotresponse = FALSE
    /\ res = <<>> /\ resp = <<>> /\ serial = None /\ nsid = None
    /\ udp_sent = 0 /\ udp_timeouts = 0 /\ tcp_sent = 0 /\ tcp_reply = <<>>
    /\ err = <<>>

Init ==
    /\ pc = "process_args" /\ exit_code = None /\ fault = "none"
    /\ RETRIES = DefaultRETRIES /\ ALLOWED_DRIFT = DefaultALLOWED_DRIFT
    /\ USE_TCP = FALSE /\ NO_NSSET = FALSE /\ MASTER = None
    /\ MASTER_IP = None /\ MASTER_SERIAL = None
    /\ ADDITIONAL = <<>> /\ NSID = FALSE
    /\ SERIAL_LIST = <<>> /\ COUNT_NSIP = 0
    /\ NSNAME_LIST = <<>> /\ ni = 1 /\ nsip_list = <<>> /\ noaddr = FALSE
    /\ NoProbe
    /\ net = {} /\ lines = 0 /\ printed = <<>>

\* sys.exit(code)
Exit(code) == pc' = "done" /\ exit_code' = code /\ fault' = fault

\* an exception nobody catches ends the run without sys.exit
Raise(e) == pc' = "done" /\ exit_code' = exit_code /\ fault' = e

Goto(l) == pc' = l /\ UNCHANGED <<exit_code, fault>>

\* ------------------------------------------------------ pure functions ----
Return(v) == [raised |-> "none", value |-> v]
Raised(e) == [raised |-> e, value |-> None]

\* list.count(x)
count(l, x) == Cardinality({i \in 1..Len(l) : l[i] = x})

\* the largest serial: all SerialBits bits set
SerialMax == 2^SerialBits - 1

\* get_exit_code with the range taken around the wrap of the serial space,
\* the shorter way between the largest and the smallest serial
get_exit_code_serial_arithmetic(count_nsip, serial_list, allowed_drift) ==
    IF count_nsip # Len(serial_list) THEN Return(2)
    ELSE IF serial_list = <<>> THEN Raised("IndexError")
    ELSE IF count(serial_list, serial_list[1]) = Len(serial_list) THEN Return(0)
    ELSE LET d == SetMax(Range(serial_list)) - SetMin(Range(serial_list))
             serial_range == IF d <= 2^SerialBits - d THEN d
                             ELSE 2^SerialBits - d
         IN  IF serial_range > allowed_drift THEN Return(1) ELSE Return(0)

\* get_exit_code with the drift test made before the count test
get_exit_code_drift_first(count_nsip, serial_list, allowed_drift) ==
    IF serial_list # <<>>
       /\ SetMax(Range(serial_list)) - SetMin(Range(serial_list))
              > allowed_drift THEN Return(1)
    ELSE IF count_nsip # Len(serial_list) THEN Return(2)
    ELSE IF serial_list = <<>> THEN Raised("IndexError")
    ELSE Return(0)

\* get_exit_code, lines 213-223, of Stats.COUNT_NSIP, Stats.SERIAL_LIST and
\* Prefs.ALLOWED_DRIFT.  SERIAL_LIST[0] raises IndexError on an empty list.
get_exit_code(count_nsip, serial_list, allowed_drift) ==
    IF count_nsip # Len(serial_list) THEN Return(2)
    ELSE IF serial_list = <<>> THEN Raised("IndexError")
    ELSE IF count(serial_list, serial_list[1]) = Len(serial_list) THEN Return(0)
    ELSE IF SetMax(Range(serial_list)) - SetMin(Range(serial_list))
               > allowed_drift THEN Return(1)
    ELSE Return(0)

\* the for ... else of lines 117-122: the serial of the first rrset of type
\* SOA in the answer section, None when there is none
RECURSIVE first_soa(_)
first_soa(answer) ==
    IF answer = <<>> THEN None
    ELSE IF Head(answer).rdtype = "SOA" THEN Head(answer).serial
    ELSE first_soa(Tail(answer))

\* the chain of lines 108-122 with the AA test ahead of the rcode test
validate_aa_first(r) ==
    IF r = <<>> THEN [serial |-> None, err |-> <<"No answer">>]
    ELSE IF ~r[1].aa THEN [serial |-> None, err |-> <<"answer not authoritative">>]
    ELSE IF r[1].rcode # 0 THEN [serial |-> None, err |-> <<"rcode">>]
    ELSE IF r[1].tc THEN [serial |-> None, err |-> <<"answer is truncated">>]
    ELSE IF first_soa(r[1].answer) = None
         THEN [serial |-> None, err |-> <<"SOA record not found">>]
    ELSE [serial |-> first_soa(r[1].answer), err |-> <<>>]

\* the if/elif chain of lines 108-122: the serial and the ERROR lines printed
validate(r) ==
    IF r = <<>> THEN [serial |-> None, err |-> <<"No answer">>]
    ELSE IF r[1].rcode # 0 THEN [serial |-> None, err |-> <<"rcode">>]
    ELSE IF ~r[1].aa THEN [serial |-> None, err |-> <<"answer not authoritative">>]
    ELSE IF r[1].tc THEN [serial |-> None, err |-> <<"answer is truncated">>]
    ELSE IF first_soa(r[1].answer) = None
         THEN [serial |-> None, err |-> <<"SOA record not found">>]
    ELSE [serial |-> first_soa(r[1].answer), err |-> <<>>]

\* lines 123-126 for a response that exists: the nsid of the last NSID option
get_nsid(r) == IF r[1].options = <<>> THEN None
               ELSE r[1].options[Len(r[1].options)]

\* line 93 falling back to TCP also when there is no UDP response
need_tcp_or_none(r) == r = <<>> \/ r[1].tc

\* line 93: the UDP result is a response and has TC set
need_tcp(r) == r # <<>> /\ r[1].tc

\* print_info returning early for the master's own address
print_info_skip_master(p_serial, p_master_serial, p_nsname, p_nsid, p_nsip, p_masterip) ==
    LET text == IF NSID THEN (IF p_nsid # None THEN "(nsid) " ELSE "() ")
                ELSE ""
        line(b, d) == [serial |-> p_serial, bracket |-> b, drift |-> d,
                       nsid |-> text, nsname |-> p_nsname, nsip |-> p_nsip]
    IN  IF NSID /\ p_nsid = RawNsid THEN Raised("UnicodeDecodeError")
        ELSE IF p_masterip # None
        THEN IF p_serial = None \/ p_master_serial = None
                \/ p_nsip = p_masterip THEN Return(<<>>)
             ELSE Return(<<line("drift", p_master_serial - p_serial)>>)
        ELSE Return(<<line("none", 0)>>)

\* print_info printing the serial itself in the bracket
print_info_serial_in_bracket(p_serial, p_master_serial, p_nsname, p_nsid, p_nsip, p_masterip) ==
    LET text == IF NSID THEN (IF p_nsid # None THEN "(nsid) " ELSE "() ")
                ELSE ""
        line(b, d) == [serial |-> p_serial, bracket |-> b, drift |-> d,
                       nsid |-> text, nsname |-> p_nsname, nsip |-> p_nsip]
    IN  IF NSID /\ p_nsid = RawNsid THEN Raised("UnicodeDecodeError")
        ELSE IF p_masterip # None
        THEN IF p_serial = None \/ p_master_serial = None THEN Return(<<>>)
             ELSE IF p_nsip = p_masterip THEN Return(<<line("MASTER", 0)>>)
             ELSE Return(<<line("drift", p_serial)>>)
        ELSE Return(<<line("none", 0)>>)

\* print_info, lines 130-149: the line printed (as a one-element sequence),
\* or the empty sequence when it returns without printing.  nsid.decode
\* raises UnicodeDecodeError on bytes that are not UTF-8.
print_info(p_serial, p_master_serial, p_nsname, p_nsid, p_nsip, p_masterip) ==
    LET text == IF NSID THEN (IF p_nsid # None THEN "(nsid) " ELSE "() ")
                ELSE ""
        line(b, d) == [serial |-> p_serial, bracket |-> b, drift |-> d,
                       nsid |-> text, nsname |-> p_nsname, nsip |-> p_nsip]
    IN  IF NSID /\ p_nsid = RawNsid THEN Raised("UnicodeDecodeError")
        ELSE IF p_masterip # None
        THEN IF p_serial = None \/ p_master_serial = None THEN Return(<<>>)
             ELSE IF p_nsip = p_masterip THEN Return(<<line("MASTER", 0)>>)
             ELSE Return(<<line("drift", p_master_serial - p_serial)>>)
        ELSE Return(<<line("none", 0)>>)

\* what print() does to standard output
Stdout(l) == printed' = l /\ lines' = lines + Len(l)

\* a step that prints no status line
Silent == Stdout(<<>>)

\* ------------------------------------------------------------ actions ----
\* usage(), lines 264-283
usage == Exit(4)

\* the option values given on the command line: -r, -d, -m and -a
RetriesOpts == 1..MaxRunRetries
DriftOpts == {DefaultALLOWED_DRIFT, 1}
MasterOpts == {None, 1}
AdditionalOpts == {<<>>, <<1>>, <<2>>}

\* process_args, lines 226-261 (argv_ok: getopt accepts the options and
\* exactly one zone argument is given; the values of -r and -d are integers)
ProcessArgs ==
    /\ pc = "process_args"
    /\ \E argv_ok \in BOOLEAN :
          IF ~argv_ok
          THEN usage /\ UNCHANGED prefs
          ELSE /\ Goto("get_nsnames")
               /\ RETRIES' \in RetriesOpts
               /\ ALLOWED_DRIFT' \in DriftOpts
               /\ USE_TCP' \in BOOLEAN
               /\ NO_NSSET' \in BOOLEAN
               /\ MASTER' \in MasterOpts
               /\ ADDITIONAL' \in AdditionalOpts
               /\ NSID' \in BOOLEAN
    /\ UNCHANGED <<master, stats, loopv, probe, net>>
    /\ Silent

\* the NS rrsets dns.resolver.resolve may return
NSAnswers == SUBSET Names \ {{}}

\* line 204 never finding the list missing
missing_additional_never(p_additional) == FALSE

\* line 204: not Prefs.ADDITIONAL
missing_additional(p_additional) == p_additional = <<>>

\* line 210 with the NS targets in descending order
nsnames_descending(p_additional, answers) ==
    LET s == sorted(answers)
    IN  p_additional \o [i \in 1..Len(s) |-> s[Len(s) + 1 - i]]

\* line 210: the additional names as given, then the sorted NS targets
nsnames(p_additional, answers) == p_additional \o sorted(answers)

\* get_nsnames, lines 200-210
GetNsnames ==
    /\ pc = "get_nsnames"
    /\ IF NO_NSSET
       THEN IF missing_additional(ADDITIONAL)
            THEN usage /\ UNCHANGED <<NSNAME_LIST, net>>
            ELSE Goto("check_master") /\ NSNAME_LIST' = ADDITIONAL
                 /\ UNCHANGED net
       ELSE /\ net' = net \cup {"NS"}
            /\ \/ \E answers \in NSAnswers :
                    /\ NSNAME_LIST' = nsnames(ADDITIONAL, answers)
                    /\ Goto("check_master")
               \/ Raise("dns.resolver") /\ UNCHANGED NSNAME_LIST
    /\ UNCHANGED <<prefs, master, stats, ni, nsip_list, noaddr, probe>>
    /\ Silent

\* send_query trying UDP first whatever Prefs.USE_TCP says
send_query_udp_first(use_tcp) == "send_query_udp"

\* send_query, lines 89-91: the function the query is handed to first
send_query(use_tcp) == IF use_tcp THEN "send_query_tcp" ELSE "send_query_udp"

\* entry of get_serial, send_query and send_query_udp, lines 99-104, 84-92
\* and 70-71: the query goes out over TCP when Prefs.USE_TCP, else over UDP
\* with a budget of Prefs.RETRIES attempts
StartProbe(who, ip) ==
    /\ caller' = who /\ nsip' = ip /\ retries' = RETRIES
    /\ Goto(send_query(USE_TCP))
    /\ UNCHANGED <<gotresponse, res, resp, serial, nsid, udp_sent,
                   udp_timeouts, tcp_sent, tcp_reply, err>>

\* get_serial has returned: its locals and those of its callees are gone
EndProbe ==
    /\ retries' = 0 /\ gotresponse' = FALSE /\ res' = <<>> /\ resp' = <<>>
    /\ udp_sent' = 0 /\ udp_timeouts' = 0 /\ tcp_sent' = 0
    /\ tcp_reply' = <<>>

\* the caller has used the pair get_serial returned
EndCall ==
    /\ caller' = "none" /\ nsip' = None /\ serial' = None /\ nsid' = None
    /\ err' = <<>>
    /\ UNCHANGED <<retries, gotresponse, res, resp, udp_sent, udp_timeouts,
                   tcp_sent, tcp_reply>>

\* the address about to be probed left out of the count
count_nsip_lost(p_count) == p_count

\* lines 177 and 190: Stats.COUNT_NSIP += 1
count_nsip(p_count) == p_count + 1

\* check_master, lines 185-191, up to the call of get_serial
CheckMaster ==
    /\ pc = "check_master"
    /\ IF MASTER = None
       THEN Goto("check_all_ns")
            /\ UNCHANGED <<master, stats, probe, net>>
       ELSE /\ net' = net \cup {"getaddrinfo master"}
            /\ \E ips \in AddrLists :
                  IF ips = <<>>      \* get_ip(...)[0] of an empty list
                  THEN Raise("IndexError") /\ UNCHANGED <<master, stats, probe>>
                  ELSE /\ MASTER_IP' = ips[1]
                       /\ COUNT_NSIP' = count_nsip(COUNT_NSIP)
                       /\ StartProbe("check_master", ips[1])
                       /\ UNCHANGED <<MASTER_SERIAL, SERIAL_LIST>>
    /\ UNCHANGED <<prefs, loopv>>
    /\ Silent

\* check_master, lines 191-197, from the return of get_serial
CheckMasterReturn ==
    /\ pc = "check_master_ret"
    /\ MASTER_SERIAL' = serial
    /\ IF serial = None
       THEN Exit(3) /\ UNCHANGED SERIAL_LIST /\ Silent
       ELSE /\ SERIAL_LIST' = Append(SERIAL_LIST, serial)
            /\ LET p == print_info(serial, serial, MASTER, nsid,
                                   MASTER_IP, MASTER_IP)
               IN  IF p.raised = "none"
                   THEN Stdout(p.value) /\ Goto("check_all_ns")
                   ELSE Silent /\ Raise(p.raised)
    /\ EndCall
    /\ UNCHANGED <<prefs, MASTER_IP, COUNT_NSIP, loopv, net>>

\* check_all_ns, lines 174-175: the next name of the list and its addresses
CheckAllNs ==
    /\ pc = "check_all_ns"
    /\ IF ni > Len(NSNAME_LIST)
       THEN Goto("get_exit_code") /\ UNCHANGED <<nsip_list, noaddr, net>>
       ELSE /\ net' = net \cup {"getaddrinfo ns"}
            /\ nsip_list' \in AddrLists
            /\ COUNT_NSIP + Len(nsip_list') <= MaxProbes
            /\ noaddr' = (noaddr \/ nsip_list' = <<>>)
            /\ Goto("for_nsip")
    /\ UNCHANGED <<prefs, master, stats, NSNAME_LIST, ni, probe>>
    /\ Silent

\* check_all_ns, lines 176-178: the next address of the name, up to the
\* call of get_serial
ForNsip ==
    /\ pc = "for_nsip"
    /\ IF nsip_list = <<>>
       THEN /\ ni' = ni + 1 /\ Goto("check_all_ns")
            /\ UNCHANGED <<nsip_list, COUNT_NSIP, probe>>
       ELSE /\ COUNT_NSIP' = count_nsip(COUNT_NSIP)
            /\ nsip_list' = Tail(nsip_list)
            /\ StartProbe("check_all_ns", Head(nsip_list))
            /\ UNCHANGED ni
    /\ UNCHANGED <<prefs, master, SERIAL_LIST, NSNAME_LIST, noaddr, net>>
    /\ Silent

\* check_all_ns, lines 179-182, from the return of get_serial
CheckAllNsReturn ==
    /\ pc = "check_all_ns_ret"
    /\ IF serial # None
       THEN /\ SERIAL_LIST' = Append(SERIAL_LIST, serial)
            /\ LET p == print_info(serial, MASTER_SERIAL, NSNAME_LIST[ni],
                                   nsid, nsip, MASTER_IP)
               IN  IF p.raised = "none"
                   THEN Stdout(p.value) /\ Goto("for_nsip")
                   ELSE Silent /\ Raise(p.raised)
       ELSE UNCHANGED SERIAL_LIST /\ Silent /\ Goto("for_nsip")
    /\ EndCall
    /\ UNCHANGED <<prefs, master, COUNT_NSIP, loopv, net>>

SoaTag == IF caller = "check_master" THEN "SOA master" ELSE "SOA ns"

ReturnTo == IF caller = "check_master" THEN "check_master_ret"
            ELSE "check_all_ns_ret"

\* get_serial, lines 105-107: socket.error is caught, (None, None) returned
SocketError ==
    /\ err' = <<"socket">> /\ serial' = None /\ nsid' = None
    /\ Goto(ReturnTo)
    /\ EndProbe

\* the loop condition with the budget off by one
udp_continue_off_by_one(p_gotresponse, p_retries) ==
    ~p_gotresponse /\ p_retries >= 0

\* the condition of the while loop of line 72
udp_continue(p_gotresponse, p_retries) == ~p_gotresponse /\ p_retries > 0

\* send_query_udp, lines 72-79, and its return into send_query, lines 93-96:
\* one test of the loop condition, then one turn of the loop or the return
SendQueryUdp ==
    /\ pc = "send_query_udp"
    /\ IF udp_continue(gotresponse, retries)
       THEN /\ retries' = retries - 1
            /\ udp_sent' = udp_sent + 1
            /\ net' = net \cup {SoaTag}
            /\ \/ \E r \in Responses :
                    /\ res' = <<r>> /\ gotresponse' = TRUE
                    /\ Goto("send_query_udp")
                    /\ UNCHANGED <<udp_timeouts, resp, serial, nsid, err,
                                   tcp_sent, tcp_reply>>
               \/ /\ udp_timeouts' = udp_timeouts + 1
                  /\ Goto("send_query_udp")
                  /\ UNCHANGED <<gotresponse, res, resp, serial, nsid, err,
                                 tcp_sent, tcp_reply>>
               \/ SocketError
       ELSE /\ IF need_tcp(res)
               THEN Goto("send_query_tcp") /\ UNCHANGED resp
               ELSE Goto("get_serial") /\ resp' = res
            /\ UNCHANGED <<retries, gotresponse, res, udp_sent, udp_timeouts,
                           tcp_sent, tcp_reply, net, serial, nsid, err>>
    /\ UNCHANGED <<prefs, master, stats, loopv, caller, nsip>>
    /\ Silent

\* send_query_tcp, lines 58-65, called at line 90 or 95; its result is what
\* send_query returns
SendQueryTcp ==
    /\ pc = "send_query_tcp"
    /\ net' = net \cup {SoaTag}
    /\ \/ /\ \E r \in Responses : tcp_reply' = <<r>> /\ resp' = <<r>>
          /\ tcp_sent' = tcp_sent + 1
          /\ Goto("get_serial")
          /\ UNCHANGED <<retries, gotresponse, res, udp_sent, udp_timeouts,
                         serial, nsid, err>>
       \/ /\ tcp_reply' = <<>> /\ resp' = <<>>      \* dns.exception.Timeout
          /\ tcp_sent' = tcp_sent + 1
          /\ Goto("get_serial")
          /\ UNCHANGED <<retries, gotresponse, res, udp_sent, udp_timeouts,
                         serial, nsid, err>>
       \/ SocketError
    /\ UNCHANGED <<prefs, master, stats, loopv, caller, nsip>>
    /\ Silent

\* get_serial, lines 108-127: validation, then the NSID option.  With
\* Prefs.NSID set and no response, resp.options raises AttributeError.
GetSerial ==
    /\ pc = "get_serial"
    /\ err' = validate(resp).err
    /\ IF NSID /\ resp = <<>>
       THEN Raise("AttributeError") /\ UNCHANGED <<serial, nsid>>
       ELSE /\ serial' = validate(resp).serial
            /\ nsid' = IF NSID THEN get_nsid(resp) ELSE None
            /\ Goto(ReturnTo)
    /\ EndProbe
    /\ UNCHANGED <<prefs, master, stats, loopv, caller, nsip, net>>
    /\ Silent

\* line 292: sys.exit(get_exit_code())
GetExitCode ==
    /\ pc = "get_exit_code"
    /\ LET r == get_exit_code(COUNT_NSIP, SERIAL_LIST, ALLOWED_DRIFT)
       IN  IF r.raised = "none" THEN Exit(r.value) ELSE Raise(r.raised)
    /\ UNCHANGED <<prefs, master, stats, loopv, probe, net>>
    /\ Silent

Next ==
    \/ ProcessArgs
    \/ GetNsnames
    \/ CheckMaster
    \/ CheckMasterReturn
    \/ CheckAllNs
    \/ ForNsip
    \/ CheckAllNsReturn
    \/ SendQueryUdp
    \/ SendQueryTcp
    \/ GetSerial
    \/ GetExitCode

Spec == Init /\ [][Next]_vars

\* The run is one sequential process: whenever a step is possible the
\* interpreter takes it.  Every send attempt ends, with a reply, a timeout
\* (after Prefs.TIMEOUT seconds) or a socket error.
SpecFair == Spec /\ WF_vars(Next)

\* ------------------------------------------------- one probe examined ----
\* The state at the entry of get_serial for the only address of the only
\* nameserver of a zone, for every transport setting.
ProbeRetries == (-1..MaxRetries) \cup {DefaultRETRIES}

InitProbe ==
    /\ exit_code = None /\ fault = "none"
    /\ RETRIES \in ProbeRetries /\ USE_TCP \in BOOLEAN /\ NSID \in BOOLEAN
    /\ ALLOWED_DRIFT = DefaultALLOWED_DRIFT
    /\ NO_NSSET = FALSE /\ MASTER = None /\ ADDITIONAL = <<>>
    /\ MASTER_IP = None /\ MASTER_SERIAL = None
    /\ SERIAL_LIST = <<>> /\ COUNT_NSIP = 1
    /\ NSNAME_LIST = <<1>> /\ ni = 1 /\ nsip_list = <<>> /\ noaddr = FALSE
    /\ caller = "check_all_ns" /\ nsip = 1 /\ retries = RETRIES
    /\ pc = send_query(USE_TCP)
    /\ gotresponse = FALSE /\ res = <<>> /\ resp = <<>>
    /\ serial = None /\ nsid = None
    /\ udp_sent = 0 /\ udp_timeouts = 0 /\ tcp_sent = 0 /\ tcp_reply = <<>>
    /\ err = <<>>
    /\ net = {"NS", "getaddrinfo ns"} /\ lines = 0 /\ printed = <<>>

NextProbe ==
    \/ SendQueryUdp
    \/ SendQueryTcp
    \/ GetSerial

SpecProbe == InitProbe /\ [][NextProbe]_vars

\* ----------------------------------------------- the verdict examined ----
\* The state at line 292 after a survey of one name without a master: any
\* number of addresses attempted, any serials collected from them.
VerdictSerials == (0..MaxVerdictSerial) \cup {SerialMax - 1, SerialMax}
VerdictDrifts == (-1..MaxDrift) \cup {SerialMax - 1, SerialMax}

InitVerdict ==
    /\ pc = "get_exit_code" /\ exit_code = None /\ fault = "none"
    /\ RETRIES = DefaultRETRIES /\ USE_TCP = FALSE /\ NSID = FALSE
    /\ ALLOWED_DRIFT \in VerdictDrifts
    /\ NO_NSSET = FALSE /\ MASTER = None /\ ADDITIONAL = <<>>
    /\ MASTER_IP = None /\ MASTER_SERIAL = None
    /\ COUNT_NSIP \in 0..MaxCount
    /\ SERIAL_LIST \in SeqsUpTo(VerdictSerials, COUNT_NSIP)
    /\ NSNAME_LIST = <<1>> /\ ni = 2 /\ nsip_list = <<>>
    /\ noaddr = (COUNT_NSIP = 0)
    /\ NoProbe
    /\ net = {"NS", "getaddrinfo ns"}
             \cup (IF COUNT_NSIP > 0 THEN {"SOA ns"} ELSE {})
    /\ lines = Len(SERIAL_LIST) /\ printed = <<>>

NextVerdict == GetExitCode

SpecVerdict == InitVerdict /\ [][NextVerdict]_vars

\* ------------------------------------------------------------ claims ----
\* the run went through the whole loop of check_all_ns
SurveyDone == NSNAME_LIST # <<>> /\ ni > Len(NSNAME_LIST)

AllEqual(l) == \A i, j \in 1..Len(l) : l[i] = l[j]
Spread(l) == SetMax(Range(l)) - SetMin(Range(l))

\* C1: whenever the number of addresses attempted differs from the number
\* of serials collected, get_exit_code returns 2, whatever the serials and
\* the allowed drift are; so 0 and 1 are returned only when every attempted
\* address produced a serial.
C1_VerdictPrecedence ==
    pc = "done" =>
        /\ COUNT_NSIP # Len(SERIAL_LIST) => exit_code = 2 /\ fault = "none"
        /\ exit_code \in {0, 1} => COUNT_NSIP = Len(SERIAL_LIST)

\* a survey with a failed address whose serials are beyond the drift
C1_Witness ==
    /\ pc = "done" /\ exit_code = 2
    /\ COUNT_NSIP > Len(SERIAL_LIST) /\ Len(SERIAL_LIST) >= 2
    /\ Spread(SERIAL_LIST) > ALLOWED_DRIFT /\ ALLOWED_DRIFT >= 0

\* C2: when every attempted address produced a serial, the exit code is 0
\* if all serials are equal, 0 if they differ by at most the allowed drift,
\* 1 if they differ by more; nothing else is produced.
C2_DriftDecision ==
    (pc = "done" /\ COUNT_NSIP = Len(SERIAL_LIST)) =>
        /\ fault = "none"
        /\ exit_code = IF AllEqual(SERIAL_LIST) THEN 0
                       ELSE IF Spread(SERIAL_LIST) <= ALLOWED_DRIFT THEN 0
                       ELSE 1

\* the probe of the master ended without a serial
MasterProbeFailed ==
    /\ MASTER # None /\ MASTER_IP # None /\ MASTER_SERIAL = None
    /\ pc = "done"

\* C3: if a master is configured and its probe yields no serial, the run
\* ends with exit code 3, no candidate nameserver is ever resolved or
\* probed, and no status line is printed.
C3_MasterFailureFatal ==
    /\ (MASTER # None /\ MASTER_SERIAL = None) =>
           /\ "getaddrinfo ns" \notin net /\ "SOA ns" \notin net
           /\ lines = 0
    /\ MasterProbeFailed => exit_code = 3 /\ fault = "none"

\* a probe of a candidate address has failed (the master, if any, answered)
CandidateProbeFailed ==
    /\ COUNT_NSIP > Len(SERIAL_LIST)
    /\ MASTER # None => MASTER_SERIAL # None

\* C4: after the failed probe of a candidate address (timeout, bad rcode,
\* not authoritative, truncated, no SOA record, socket error), under every
\* configuration, every later address of every later name is still probed
\* and the run ends at the verdict with an exit code in {0, 1, 2}.
C4_FailureNeverAborts ==
    (pc = "done" /\ CandidateProbeFailed) =>
        /\ SurveyDone /\ nsip_list = <<>>
        /\ exit_code \in {0, 1, 2} /\ fault = "none"

\* C5: if a candidate name resolves to no address, the run's exit code is
\* 2, even when every address probed returned the same serial.
C5_ResolutionFailureIsPartial ==
    (pc = "done" /\ SurveyDone /\ noaddr) => exit_code = 2

\* C6: with -n and no -a list the run ends with exit code 4, and no NS
\* lookup, no address resolution and no SOA query has been made by then.
C6_UsageBeforeNetwork ==
    (NO_NSSET /\ ADDITIONAL = <<>>) =>
        /\ net = {}
        /\ pc = "get_nsnames" \/ (pc = "done" /\ exit_code = 4)
        /\ fault = "none"

C6_Witness ==
    NO_NSSET /\ ADDITIONAL = <<>> /\ pc = "done" /\ exit_code = 4

\* C7: with or without a master, a run that reaches the verdict has printed
\* as many status lines as it has collected serials; each line is printed
\* by the step that collects the serial of the probe it reports, before
\* the next probe starts.
C7_OneLinePerSuccess ==
    /\ []((pc = "done" /\ exit_code \in {0, 1, 2}) =>
              lines = Len(SERIAL_LIST))
    /\ [](pc \in {"send_query_udp", "send_query_tcp", "get_serial"} =>
              lines = Len(SERIAL_LIST) /\ printed = <<>>)
    /\ [][(SERIAL_LIST' # SERIAL_LIST /\ fault' = "none") =>
              /\ lines' = lines + 1
              /\ printed' # <<>>
              /\ printed'[1].serial = serial
              /\ printed'[1].nsip = nsip
              /\ SERIAL_LIST' = Append(SERIAL_LIST, serial)]_vars
    /\ [][printed' # <<>> => SERIAL_LIST' # SERIAL_LIST]_vars

\* a run with a master that ended at the verdict with two lines printed
C7_Witness ==
    /\ pc = "done" /\ exit_code \in {0, 1, 2}
    /\ MASTER # None /\ lines = 2 /\ Len(SERIAL_LIST) = 2

\* C8: without -c, a TCP query is sent for an address exactly when a UDP
\* response with TC set was received for it; then the TCP result (response
\* or none) is what get_serial validates, not the UDP response; when all
\* UDP attempts time out no TCP query is sent.
C8_TcpOnlyOnTruncation ==
    ~USE_TCP =>
        /\ pc = "send_query_tcp" => res # <<>> /\ res[1].tc
        /\ pc = "get_serial" =>
              /\ tcp_sent <= 1
              /\ tcp_sent = 1 <=> (res # <<>> /\ res[1].tc)
              /\ tcp_sent = 1 => resp = tcp_reply
              /\ tcp_sent = 0 => resp = res
              /\ udp_timeouts = udp_sent => tcp_sent = 0

\* a truncated UDP response followed by a good TCP response
C8_Witness ==
    /\ ~USE_TCP /\ pc = "get_serial" /\ tcp_sent = 1
    /\ res # <<>> /\ res[1].tc
    /\ resp # <<>> /\ WellFormed(resp[1]) /\ first_soa(resp[1].answer) # None

\* C9: send_query_udp makes at most max_attempts attempts (none when
\* max_attempts <= 0), none after the first one that gets a reply, and
\* returns None exactly when every attempt made timed out.
C9_BoundedUdpRetry ==
    (~USE_TCP /\ pc \in {"send_query_udp", "send_query_tcp", "get_serial"}) =>
        /\ udp_sent <= (IF RETRIES > 0 THEN RETRIES ELSE 0)
        /\ udp_sent = udp_timeouts + (IF gotresponse THEN 1 ELSE 0)
        /\ pc # "send_query_udp" => (res = <<>> <=> udp_timeouts = udp_sent)
        /\ gotresponse <=> res # <<>>

\* every attempt allowed was made and timed out
C9_Witness ==
    /\ ~USE_TCP /\ pc = "get_serial" /\ RETRIES = 2
    /\ udp_sent = 2 /\ udp_timeouts = 2 /\ resp = <<>>

\* C10: a run without a master in which every name resolved to no address
\* (0 attempted, 0 collected) ends with the verdict CONSISTENT, exit code
\* 0, and not with an unhandled fault.
C10_EmptySurvey ==
    (pc = "done" /\ SurveyDone /\ MASTER = None /\ COUNT_NSIP = 0) =>
        exit_code = 0 /\ fault = "none"

\* C11: when a master is configured and its name resolves to zero
\* addresses, the run ends with exit code 3 and not with an unhandled
\* fault.
C11_UnresolvableMaster ==
    (pc = "done" /\ MASTER # None /\ "getaddrinfo master" \in net
        /\ MASTER_IP = None)
    => (exit_code = 3 /\ fault = "none")

HasSoa(r) == \E i \in 1..Len(r[1].answer) : r[1].answer[i].rdtype = "SOA"

Sound(r) ==
    r # <<>> /\ r[1].rcode = 0 /\ r[1].aa /\ ~r[1].tc /\ HasSoa(r)

FirstFailure(r) ==
    CASE r = <<>> -> "No answer"
      [] r # <<>> /\ r[1].rcode # 0 -> "rcode"
      [] r # <<>> /\ r[1].rcode = 0 /\ ~r[1].aa -> "answer not authoritative"
      [] r # <<>> /\ r[1].rcode = 0 /\ r[1].aa /\ r[1].tc
            -> "answer is truncated"
      [] OTHER -> "SOA record not found"

C13_TcpOnlyMode ==
    USE_TCP =>
        /\ udp_sent = 0 /\ pc # "send_query_udp"
        /\ tcp_sent <= 1
        /\ pc = "get_serial" => (tcp_sent = 1 /\ resp = tcp_reply)

C13_Witness ==
    USE_TCP /\ pc = "get_serial" /\ tcp_sent = 1 /\ tcp_reply = <<>>

\* C14: with the identity token requested, a probe that obtained no
\* response at all returns (no serial, no identity token) to its caller as
\* an ordinary failure of that one server, and the run goes on.
C14_NoResponseWithNsid ==
    (NSID /\ err = <<"No answer">>)
    => /\ pc \in {"check_master_ret", "check_all_ns_ret"}
       /\ serial = None /\ nsid = None /\ fault = "none"

\* C15: in a run with a master, the master probe has finished and the
\* master serial is recorded before any candidate nameserver is resolved or
\* probed and before any status line is printed, and every status line
\* carries a MASTER or drift bracket, the drift being computed from the
\* recorded master serial.
C15_MasterFirst ==
    MASTER # None =>
        /\ ("getaddrinfo ns" \in net \/ "SOA ns" \in net \/ lines > 0)
              => /\ MASTER_SERIAL # None /\ "SOA master" \in net
                 /\ caller # "check_master"
        /\ printed # <<>>
              => /\ printed[1].bracket \in {"MASTER", "drift"}
                 /\ printed[1].bracket = "MASTER"
                       <=> printed[1].nsip = MASTER_IP
                 /\ printed[1].bracket = "drift"
                       => printed[1].drift = MASTER_SERIAL - printed[1].serial

C15_Witness ==
    /\ MASTER # None /\ printed # <<>> /\ printed[1].bracket = "drift"
    /\ printed[1].drift = MASTER_SERIAL - printed[1].serial
    /\ printed[1].serial # MASTER_SERIAL /\ "SOA ns" \in net

\* a candidate name is being resolved or one of its addresses probed
Candidate == pc = "for_nsip" \/ caller = "check_all_ns"

RECURSIVE zone_soa(_)
zone_soa(answer) ==
    IF answer = <<>> THEN None
    ELSE IF Head(answer).rdtype = "SOA" /\ Head(answer).owner = "zone"
         THEN Head(answer).serial
    ELSE zone_soa(Tail(answer))

\* C17: a probe yields a serial only from an SOA record whose owner name is
\* the queried zone; a response whose answer section holds only an SOA
\* record of another owner yields no serial and logs 'SOA record not found'.
C17_SoaOwnerMatches ==
    [][(pc = "get_serial" /\ resp # <<>>) =>
         /\ serial' # None => serial' = zone_soa(resp[1].answer)
         /\ (WellFormed(resp[1]) /\ zone_soa(resp[1].answer) = None)
               => (serial' = None /\ err' = <<"SOA record not found">>)]_vars

\* get_serial is about to be called for an address
ProbeStarts ==
    /\ pc \in {"check_master", "for_nsip"}
    /\ pc' \in {"send_query_udp", "send_query_tcp"}

\* get_serial has handed its result to the caller
ProbeReturns == pc \in {"check_master_ret", "check_all_ns_ret"}

\* C18: the collected serials never outnumber the attempted addresses;
\* every probe, of the master or of a candidate, raises the attempted count
\* by exactly one, and the serial list by exactly one when it yields a
\* serial and by nothing when it fails; nothing else, a name that resolves
\* to zero addresses included, changes either.
C18_Accounting ==
    /\ [](Len(SERIAL_LIST) <= COUNT_NSIP)
    /\ [][ProbeStarts => /\ COUNT_NSIP' = COUNT_NSIP + 1
                         /\ SERIAL_LIST' = SERIAL_LIST]_vars
    /\ [][ProbeReturns =>
            /\ COUNT_NSIP' = COUNT_NSIP
            /\ SERIAL_LIST' = IF serial # None
                              THEN Append(SERIAL_LIST, serial)
                              ELSE SERIAL_LIST]_vars
    /\ [][(~ProbeStarts /\ ~ProbeReturns) => UNCHANGED stats]_vars
    /\ [][(pc = "check_all_ns" /\ pc' = "for_nsip" /\ nsip_list' = <<>>)
            => UNCHANGED stats]_vars

C18_Witness ==
    /\ pc = "get_exit_code" /\ noaddr
    /\ COUNT_NSIP = 2 /\ Len(SERIAL_LIST) = 1

\* C19: the verdict compares serials as plain unsigned integers and takes
\* max - min by ordinary subtraction, without wraparound: when every
\* attempted address produced a serial and the largest serial of the serial
\* space and 0 are both among them, the range is that largest serial, so the
\* exit code is 1 for every allowed drift below it (and 0 from it on).
C19_NoWraparound ==
    (pc = "done" /\ COUNT_NSIP = Len(SERIAL_LIST)
        /\ {0, SerialMax} \subseteq Range(SERIAL_LIST))
    => /\ fault = "none"
       /\ ALLOWED_DRIFT < SerialMax => exit_code = 1
       /\ ALLOWED_DRIFT >= SerialMax => exit_code = 0

C19_Witness ==
    /\ pc = "done" /\ exit_code = 1 /\ SERIAL_LIST = <<SerialMax, 0>>
    /\ COUNT_NSIP = 2 /\ ALLOWED_DRIFT = SerialMax - 1

\* the run is over, with an exit code or with an unhandled fault; this much
\* holds of SpecFair
RunEnds == <>(pc = "done")

\* a probe makes at most max_attempts UDP attempts and at most one TCP
\* attempt, and takes the address it probes off the resolved list
AttemptsBounded ==
    /\ [](udp_sent <= (IF RETRIES > 0 THEN RETRIES ELSE 0) /\ tcp_sent <= 1)
    /\ [][(pc = "for_nsip" /\ pc' # "check_all_ns")
            => (nsip_list # <<>> /\ nsip' = Head(nsip_list)
                /\ nsip_list' = Tail(nsip_list))]_vars
    /\ [][nsip_list' # nsip_list
            => (pc = "check_all_ns" \/ nsip_list' = Tail(nsip_list))]_vars

\* C20: every run over a candidate list eventually ends with an exit code,
\* having made for each probed address at most max_attempts UDP attempts
\* and at most one TCP attempt, and having probed no address of the
\* candidate loop more than once per occurrence in the resolved list.
C20_EndsWithExitCode ==
    /\ <>(pc = "done" /\ (NSNAME_LIST # <<>> => exit_code \in 0..4))
    /\ AttemptsBounded

TypeOK ==
    /\ exit_code \in {None} \cup 0..4
    /\ COUNT_NSIP >= Len(SERIAL_LIST)

====
